---- MODULE Spec2Model ----
(***************************************************************************)
(* Model of mcp/search_web_mcp.py: one process that reads a request,       *)
(* searches, fetches every hit concurrently, extracts facts from every     *)
(* page concurrently behind a memoised model-availability gate, and        *)
(* prints one response.                                                    *)
(***************************************************************************)
EXTENDS Integers, Sequences, FiniteSets, TLC

\* ---------------------------------------------------------------- constants
MAX_RESULTS == 3

FALLBACK_TOP_K == 5

\* bound on the number of entries of a result page the search backend returns
MaxPage == 4

\* ------------------------------------------------------------ Python values
\* Optional values: <<>> is None / absent, <<x>> is a present x.
None == <<>>

Some(x) == <<x>>

\* Python str values that are inspected character by character are sequences
\* of one-character strings.
PyNone == [k |-> "none", v |-> 0]

PyInt(n) == [k |-> "int", v |-> n]

PyStr(s) == [k |-> "str", s |-> s]

PyList(n) == [k |-> "list", v |-> n]

PyInf == [k |-> "inf", v |-> 0]

\* bool(value)
Truthy(x) ==
  CASE x.k = "none" -> FALSE
    [] x.k = "int"  -> x.v # 0
    [] x.k = "str"  -> x.s # <<>>
    [] x.k = "list" -> x.v # 0
    [] x.k = "inf"  -> TRUE

\* a or b
PyOr(a, b) == IF Truthy(a) THEN a ELSE b

Digits == <<"0", "1", "2", "3", "4", "5", "6", "7", "8", "9">>

IsDigit(c) == \E d \in 1..10 : Digits[d] = c

DigitVal(c) == (CHOOSE d \in 1..10 : Digits[d] = c) - 1

RECURSIVE DigitsVal(_)
DigitsVal(s) ==
  IF s = <<>> THEN 0
  ELSE 10 * DigitsVal(SubSeq(s, 1, Len(s) - 1)) + DigitVal(s[Len(s)])

AllDigits(s) == s # <<>> /\ \A i \in 1..Len(s) : IsDigit(s[i])

\* int(value): [ok, v] on success, [ok |-> FALSE, exc] naming the exception
IntOfStr(s) ==
  IF AllDigits(s) THEN [ok |-> TRUE, v |-> DigitsVal(s), exc |-> ""]
  ELSE IF Len(s) > 1 /\ s[1] = "-" /\ AllDigits(Tail(s))
       THEN [ok |-> TRUE, v |-> 0 - DigitsVal(Tail(s)), exc |-> ""]
  ELSE [ok |-> FALSE, v |-> 0, exc |-> "ValueError"]

PyIntOf(x) ==
  CASE x.k = "int"  -> [ok |-> TRUE, v |-> x.v, exc |-> ""]
    [] x.k = "str"  -> IntOfStr(x.s)
    [] x.k = "none" -> [ok |-> FALSE, v |-> 0, exc |-> "TypeError"]
    [] x.k = "list" -> [ok |-> FALSE, v |-> 0, exc |-> "TypeError"]
    [] x.k = "inf"  -> [ok |-> FALSE, v |-> 0, exc |-> "OverflowError"]

Max(a, b) == IF a >= b THEN a ELSE b

Min(a, b) == IF a <= b THEN a ELSE b

\* ------------------------------------------------------------------- URLs
\* A link target in parsed form.  scheme = "" with a non-empty netloc is a
\* protocol-relative link ("//host/path"); netloc and path are sequences of
\* string fragments whose concatenation is the component; uddg is the decoded
\* value of the uddg query parameter, itself a link target, or None.
Url(scheme, netloc, path, uddg) ==
  [scheme |-> scheme, netloc |-> netloc, path |-> path, uddg |-> uddg]

DDG_SUFFIX == <<"duckduckgo.com">>

REDIRECT_PREFIX == <<"/l/">>

\* s.endswith(suf)
EndsWith(s, suf) ==
  Len(s) >= Len(suf) /\ SubSeq(s, Len(s) - Len(suf) + 1, Len(s)) = suf

\* s.startswith(pre)
StartsWith(s, pre) ==
  Len(s) >= Len(pre) /\ SubSeq(s, 1, Len(pre)) = pre

\* href.startswith("//")
IsProtocolRelative(href) == href.scheme = "" /\ href.netloc # <<>>

\* lines 79-80: href = f"https:{href}"
NormalizeHref(href) ==
  IF IsProtocolRelative(href) THEN [href EXCEPT !.scheme = "https"] ELSE href

\* lines 82-86: unwrap a /l/ redirect of the backend carrying uddg
UnwrapHref(href) ==
  IF EndsWith(href.netloc, DDG_SUFFIX) /\ StartsWith(href.path, REDIRECT_PREFIX)
     /\ href.uddg # None
  THEN href.uddg[1]
  ELSE href

\* One .result block of the page: link says whether a .result__a element
\* exists, href is its href attribute (None when missing or empty).
Entry(link, href, title, snippet) ==
  [link |-> link, href |-> href, title |-> title, snippet |-> snippet]

Hit(title, url, snippet) == [title |-> title, url |-> url, snippet |-> snippet]

\* lines 74-95: the hit an entry contributes, as a sequence of 0 or 1 hits
EntryHits(e) ==
  IF ~e.link \/ e.href = None THEN <<>>
  ELSE LET href == UnwrapHref(NormalizeHref(e.href[1]))
       IN IF EndsWith(href.netloc, DDG_SUFFIX) THEN <<>>
          ELSE <<Hit(e.title, href, IF e.snippet = None THEN "" ELSE e.snippet[1])>>

\* lines 72-98: the loop over the page, stopping once len(results) >= limit
\* after an append
RECURSIVE ParseLoop(_, _, _, _)
ParseLoop(page, i, results, limit) ==
  IF i > Len(page) THEN results
  ELSE LET hs == EntryHits(page[i])
       IN IF hs = <<>> THEN ParseLoop(page, i + 1, results, limit)
          ELSE IF Len(results) + 1 >= limit THEN results \o hs
          ELSE ParseLoop(page, i + 1, results \o hs, limit)

fetch_duckduckgo_results(page, limit) == ParseLoop(page, 1, <<>>, limit)

\* ------------------------------------------------------------ input sets
ExampleHost == <<"example.com">>

DdgHost == <<"duckduckgo.com">>

DdgHtmlHost == <<"html", ".", "duckduckgo.com">>

\* a foreign host whose name merely ends with the backend's name
LookalikeHost == <<"not", "duckduckgo.com">>

UrlOne == Url("https", ExampleHost, <<"/1">>, None)

UrlTwo == Url("https", ExampleHost, <<"/2">>, None)

UrlWrappedTwo == Url("", DdgHost, <<"/l/", "">>, Some(UrlTwo))

UrlAd == Url("https", DdgHost, <<"/y.js">>, None)

UrlWrappedAd == Url("https", DdgHost, <<"/l/", "">>, Some(UrlAd))

UrlBareRedirect == Url("", DdgHtmlHost, <<"/l/", "">>, None)

UrlLookalike == Url("https", LookalikeHost, <<"/3">>, None)

Entries ==
  { Entry(TRUE, Some(UrlOne), "One", Some("A")),
    Entry(TRUE, Some(UrlWrappedTwo), "Two", None),
    Entry(TRUE, Some(UrlAd), "Ad", Some("B")),
    Entry(TRUE, Some(UrlWrappedAd), "WrappedAd", Some("C")),
    Entry(TRUE, Some(UrlBareRedirect), "Bare", Some("D")),
    Entry(TRUE, Some(UrlLookalike), "Lookalike", Some("F")),
    Entry(TRUE, None, "NoHref", Some("E")),
    Entry(FALSE, None, "", None) }

SeqsUpTo(S, n) == UNION { [1..m -> S] : m \in 0..n }

Pages == SeqsUpTo(Entries, MaxPage)

\* --------------------------------------------------------- requests (stdin)
\* A JSON object with the four recognised fields, each absent or a value.
Dict(query, q, tk, limit) ==
  [k |-> "dict", query |-> query, q |-> q, top_k |-> tk, limit |-> limit]

EmptyDict == Dict(None, None, None, None)

\* request.get(key)
Get(d, key) ==
  LET f == CASE key = "query" -> d.query
             [] key = "q"     -> d.q
             [] key = "top_k" -> d.top_k
             [] key = "limit" -> d.limit
  IN IF f = None THEN PyNone ELSE f[1]

\* What input() yields: end of file, or a line that is empty, is not JSON, or
\* is the JSON text of val.
Stdin(kind, val) == [kind |-> kind, val |-> val]

QueryValues ==
  { None, Some(PyStr(<<>>)), Some(PyStr(<<"x">>)), Some(PyNone), Some(PyInt(0)) }

QValues == { None, Some(PyStr(<<"y">>)), Some(PyStr(<<>>)) }

TopKValues ==
  { None, Some(PyNone), Some(PyInt(0)), Some(PyInt(2)), Some(PyInt(10)),
    Some(PyInt(0 - 1)), Some(PyStr(<<"2">>)), Some(PyStr(<<"-", "4">>)),
    Some(PyStr(<<"b", "a", "d">>)), Some(PyStr(<<>>)), Some(PyList(1)),
    Some(PyInf) }

LimitValues == { None, Some(PyInt(1)), Some(PyStr(<<"b", "a", "d">>)), Some(PyList(1)) }

Requests ==
  { Dict(a, b, c, d) : a \in QueryValues, b \in QValues, c \in TopKValues,
                       d \in LimitValues }

StdinInputs ==
  { Stdin("eof", PyNone), Stdin("empty", PyNone), Stdin("malformed", PyNone),
    Stdin("json", PyNone), Stdin("json", PyList(0)) }
  \cup { Stdin("json", d) : d \in Requests }

\* main, lines 189-197: the request handed to handle_request
ParseInput(in) ==
  LET raw == IF in.kind = "eof" THEN Stdin("json", EmptyDict) ELSE in
  IN IF raw.kind = "empty" THEN EmptyDict
     ELSE IF raw.kind = "malformed" THEN EmptyDict
     ELSE raw.val

RECURSIVE NatToStr(_)
NatToStr(n) ==
  IF n < 10 THEN <<Digits[n + 1]>>
  ELSE NatToStr(n \div 10) \o <<Digits[(n % 10) + 1]>>

\* str(query) for the truthy values a query can take
PyStrOf(x) ==
  CASE x.k = "str" -> x.s
    [] x.k = "int" -> IF x.v < 0 THEN <<"-">> \o NatToStr(0 - x.v) ELSE NatToStr(x.v)
    [] OTHER -> <<"?">>

\* line 177
RequestQuery(request) == PyOr(Get(request, "query"), Get(request, "q"))

\* line 178: "if not query" is the negation of this
HasQueryNotNone(request) == RequestQuery(request).k # "none"

HasQuery(request) == Truthy(RequestQuery(request))

\* line 180
RequestTopKRaw(request) ==
  PyOr(PyOr(Get(request, "top_k"), Get(request, "limit")), PyInt(MAX_RESULTS))

\* lines 181-184: [raised, v]; OverflowError is not caught
RequestTopK(request) ==
  LET r == PyIntOf(RequestTopKRaw(request))
  IN IF r.ok THEN [raised |-> FALSE, v |-> r.v]
     ELSE IF r.exc \in {"TypeError", "ValueError"}
          THEN [raised |-> FALSE, v |-> FALLBACK_TOP_K]
     ELSE [raised |-> TRUE, v |-> 0]

ClampTopKNoUpper(tk) == Max(1, tk)

\* line 151
ClampTopK(tk) == Max(1, Min(tk, MAX_RESULTS))

MissingQuery == [k |-> "error", error |-> "Missing query", results |-> <<>>]

Results(output) == [k |-> "results", error |-> "", results |-> output]

\* ------------------------------------------------------------- page fetch
\* What one crawler.arun task ends with: an exception (kept as a value by
\* gather(return_exceptions=True)) or a result object.  markdown is None when
\* the object has no such attribute, else <<m>> where m is a plain string
\* (m.raw = None, m.str) or an object with raw_markdown (m.raw = <<value>>,
\* value "" standing for a None/empty raw_markdown); text likewise.
\* Exception messages are sequences of text fragments; str(exc) = <<>> is "".
CrawlExc(msg) == [k |-> "exc", msg |-> msg, markdown |-> None, text |-> None]

CrawlObj(markdown, text) ==
  [k |-> "obj", msg |-> <<>>, markdown |-> markdown, text |-> text]

MdRaw(raw) == [raw |-> Some(raw), str |-> ""]

MdStr(str) == [raw |-> None, str |-> str]

CrawlOutcomes ==
  { CrawlExc(<<"fail">>),
    CrawlObj(Some(MdRaw("m1")), None),
    CrawlObj(Some(MdRaw("")), Some("m1")),
    CrawlObj(None, Some("")) }

Payload(content, error) == [content |-> content, error |-> error]

NormalizeLosesError(result) ==
  IF result.k = "exc" THEN Payload("", None)
  ELSE IF result.markdown # None
       THEN LET m == result.markdown[1]
            IN IF m.raw # None THEN Payload(m.raw[1], None)
               ELSE Payload(m.str, None)
  ELSE IF result.text # None THEN Payload(result.text[1], None)
  ELSE Payload("", None)

\* lines 109-119
normalize_crawl_result(result) ==
  IF result.k = "exc" THEN Payload("", Some(result.msg))
  ELSE IF result.markdown # None
       THEN LET m == result.markdown[1]
            IN IF m.raw # None THEN Payload(m.raw[1], None)
               ELSE Payload(m.str, None)
  ELSE IF result.text # None THEN Payload(result.text[1], None)
  ELSE Payload("", None)

GatherAsCompleted(slots, order) == [i \in 1..Len(order) |-> slots[order[i]][1]]

OpensSessionAlways(urls) == TRUE

\* lines 102-104: crawl_urls opens a crawler session unless urls is empty
OpensSession(urls) == urls # <<>>

\* asyncio.gather: the results of the awaitables in the order they were
\* passed, whatever order they completed in.  slots[i] is <<result of i>>,
\* order lists the positions in completion order.
Gather(slots, order) == [i \in 1..Len(slots) |-> slots[i][1]]

\* ------------------------------------------------- model availability gate
OLLAMA_MODEL == "qwen2.5:latest"

ModelStatus(checked, available, error) ==
  [checked |-> checked, available |-> available, error |-> error]

\* line 19
ModelCheckInit == ModelStatus(FALSE, TRUE, None)

\* What GET {base}/api/tags ends with: the listed model names, or an
\* exception (network error, non-2xx status, unparsable body).
TagsOk(models) == [k |-> "ok", models |-> models, msg |-> <<>>]

TagsExc(msg) == [k |-> "exc", models |-> <<>>, msg |-> msg]

TagsOutcomes ==
  { TagsOk(<<"other:latest", OLLAMA_MODEL>>), TagsOk(<<"other:latest">>),
    TagsExc(<<"connect failed">>) }

InList(x, xs) == \E j \in 1..Len(xs) : xs[j] = x

MustCheckAlways(mc) == TRUE

\* line 34: the check is issued only when nothing is memoised
MustCheck(mc) == ~mc.checked

CheckResultNoExcept(resp) ==
  IF resp.k = "exc"
  THEN [raised |-> TRUE, status |-> ModelStatus(TRUE, FALSE, Some(resp.msg))]
  ELSE IF ~InList(OLLAMA_MODEL, resp.models)
       THEN [raised |-> FALSE,
             status |-> ModelStatus(TRUE, FALSE, Some(<<"Model not found: ", OLLAMA_MODEL>>))]
  ELSE [raised |-> FALSE, status |-> ModelStatus(TRUE, TRUE, None)]

\* lines 42-55: what _MODEL_CHECK.update stores for a listing outcome;
\* raised says whether the call raises to its caller instead
CheckResult(resp) ==
  IF resp.k = "exc"
  THEN [raised |-> FALSE, status |-> ModelStatus(TRUE, FALSE, Some(resp.msg))]
  ELSE IF ~InList(OLLAMA_MODEL, resp.models)
       THEN [raised |-> FALSE,
             status |-> ModelStatus(TRUE, FALSE, Some(<<"Model not found: ", OLLAMA_MODEL>>))]
  ELSE [raised |-> FALSE, status |-> ModelStatus(TRUE, TRUE, None)]

\* ---------------------------------------------------------- extraction
\* What POST OLLAMA_URL ends with: the response field of the body as a
\* sequence of characters, or an exception.
GenOk(text) == [k |-> "ok", text |-> text, msg |-> <<>>]

GenExc(msg) == [k |-> "exc", text |-> <<>>, msg |-> msg]

GenOutcomes ==
  { GenOk(<<" ", "f", " ">>), GenOk(<<" ">>), GenExc(<<"timeout">>) }

IsSpace(c) == c \in {" ", "\n", "\t"}

RECURSIVE LStrip(_)
LStrip(s) == IF s # <<>> /\ IsSpace(s[1]) THEN LStrip(Tail(s)) ELSE s

RECURSIVE RStrip(_)
RStrip(s) ==
  IF s # <<>> /\ IsSpace(s[Len(s)]) THEN RStrip(SubSeq(s, 1, Len(s) - 1)) ELSE s

\* str.strip()
Strip(s) == RStrip(LStrip(s))

Facts(facts, facts_error) == [facts |-> facts, facts_error |-> facts_error]

ContentEmptyNever(content) == FALSE

\* line 123: "not content"
ContentEmpty(content) == content = ""

\* lines 123-124
EmptyFacts == Facts(<<>>, None)

\* lines 126-127
GateFacts(status) == Facts(<<>>, status.error)

\* lines 143-147
GenFacts(resp) ==
  IF resp.k = "exc" THEN Facts(<<>>, Some(resp.msg))
  ELSE Facts(Strip(resp.text), None)

\* an optional message taken as a condition: None and "" are falsy
FalsyOpt(o) == o = None \/ o[1] = <<>>

ResultRecordSurfacesError(item, payload, facts) ==
  [title |-> item.title, url |-> item.url,
   error |-> IF payload.error # None THEN payload.error ELSE facts.facts_error,
   facts |-> IF facts.facts # <<>> /\ FalsyOpt(facts.facts_error)
             THEN Some(facts.facts) ELSE None]

\* lines 163-172: one record; facts is None when the key is not set
ResultRecord(item, payload, facts) ==
  [title |-> item.title, url |-> item.url, error |-> payload.error,
   facts |-> IF facts.facts # <<>> /\ FalsyOpt(facts.facts_error)
             THEN Some(facts.facts) ELSE None]

RECURSIVE SkipFailed(_, _, _, _)
SkipFailed(rs, ps, fs, i) ==
  IF i > Min(Len(rs), Min(Len(ps), Len(fs))) THEN <<>>
  ELSE (IF ps[i].error # None THEN <<>> ELSE <<ResultRecord(rs[i], ps[i], fs[i])>>)
       \o SkipFailed(rs, ps, fs, i + 1)

BuildOutputSkipsFailed(rs, ps, fs) == SkipFailed(rs, ps, fs, 1)

\* lines 161-173: zip stops at the shortest of the three lists
BuildOutput(rs, ps, fs) ==
  [i \in 1..Min(Len(rs), Min(Len(ps), Len(fs))) |-> ResultRecord(rs[i], ps[i], fs[i])]

\* ------------------------------------------------------------------ state
VARIABLES
  pc,          \* where the process is: main, handle_request, search_web,
               \* await_search, await_crawl, await_facts, done, raised
  stdin,       \* what input() yielded, None before it is read and after the
               \* request was handed on
  request,     \* argument of handle_request, None outside of it
  soup,        \* fetch_duckduckgo_results: the result page of a direct call
               \* of the lookup, None otherwise (search_web's call parses the
               \* page in the step that receives it)
  query,       \* search_web: query
  top_k,       \* search_web: top_k
  results,     \* search_web: results, the search hits
  crawl,       \* crawl_urls: per position None while the fetch task runs,
               \* then <<its outcome>>
  crawlOrder,  \* positions of the fetch tasks in completion order
  payloads,    \* search_web: payloads
  task,        \* the extract_facts task of each position
  factsOrder,  \* positions of the extraction tasks in completion order
  modelCheck,  \* _MODEL_CHECK
  net,         \* number of calls issued to each backend, and of fetch
               \* sessions opened
  writes,      \* number of _MODEL_CHECK.update calls
  response,    \* what handle_request returned, None before
  stdout       \* the lines printed

vars ==
  <<pc, stdin, request, soup, query, top_k, results, crawl, crawlOrder,
    payloads, task, factsOrder, modelCheck, net, writes, response, stdout>>

pipelineVars ==
  <<query, top_k, results, crawl, crawlOrder, payloads, task, factsOrder,
    modelCheck, net, writes>>

\* One extract_facts coroutine: pc is start (not yet run), tags (awaiting
\* GET /api/tags), gen (awaiting POST OLLAMA_URL), done or raised; status is
\* model_status (None before ensure_model_available returned), listing the
\* outcome of its own tags call, reply the outcome of its generation call,
\* tags and gen the number of such calls it issued, ret the value it returned.
TaskInit ==
  [pc |-> "start", status |-> None, listing |-> None, reply |-> None,
   tags |-> 0, gen |-> 0, ret |-> None]

Init ==
  /\ pc = "main"
  /\ stdin = None
  /\ request = None
  /\ soup = None
  /\ query = <<>>
  /\ top_k = 0
  /\ results = <<>>
  /\ crawl = <<>>
  /\ crawlOrder = <<>>
  /\ payloads = <<>>
  /\ task = <<>>
  /\ factsOrder = <<>>
  /\ modelCheck = ModelCheckInit
  /\ net = [search |-> 0, session |-> 0, fetch |-> 0, tags |-> 0, gen |-> 0]
  /\ writes = 0
  /\ response = None
  /\ stdout = <<>>

\* lines 188-198: read one line, parse it, call handle_request
main ==
  /\ pc = "main"
  /\ \E in \in StdinInputs :
       /\ stdin' = Some(in)
       /\ request' = Some(ParseInput(in))
  /\ pc' = "handle_request"
  /\ UNCHANGED <<soup, pipelineVars, response, stdout>>

\* lines 176-185 (and 198-199 when it returns at once): a request that is
\* not an object or whose top_k overflows raises; a missing query is answered
\* and printed; otherwise search_web is called with str(query) and top_k
handle_request ==
  /\ pc = "handle_request"
  /\ LET req == request[1]
     IN IF req.k # "dict"
        THEN /\ pc' = "raised"
             /\ UNCHANGED <<stdin, request, soup, pipelineVars, response, stdout>>
        ELSE IF ~HasQuery(req)
        THEN /\ response' = Some(MissingQuery)
             /\ stdout' = Append(stdout, MissingQuery)
             /\ pc' = "done"
             /\ UNCHANGED <<stdin, request, soup, pipelineVars>>
        ELSE IF RequestTopK(req).raised
        THEN /\ pc' = "raised"
             /\ UNCHANGED <<stdin, request, soup, pipelineVars, response, stdout>>
        ELSE /\ query' = PyStrOf(RequestQuery(req))
             /\ top_k' = RequestTopK(req).v
             /\ pc' = "search_web"
             /\ stdin' = None
             /\ request' = None
             /\ UNCHANGED <<soup, results, crawl, crawlOrder, payloads, task,
                            factsOrder, modelCheck, net, writes, response, stdout>>

\* lines 151-152 and 67-68: clamp top_k, issue the search GET
search_web ==
  /\ pc = "search_web"
  /\ top_k' = ClampTopK(top_k)
  /\ net' = [net EXCEPT !.search = @ + 1]
  /\ pc' = "await_search"
  /\ UNCHANGED <<stdin, request, soup, query, results, crawl, crawlOrder, payloads,
                 task, factsOrder, modelCheck, writes, response, stdout>>

SearchFailsReported ==
  /\ pc = "await_search"
  /\ response' = Some([k |-> "error", error |-> "search failed", results |-> <<>>])
  /\ stdout' = Append(stdout, response'[1])
  /\ pc' = "done"
  /\ UNCHANGED <<stdin, request, soup, pipelineVars>>

\* lines 69: raise_for_status or a network error; nothing catches it
search_fails ==
  /\ pc = "await_search"
  /\ pc' = "raised"
  /\ UNCHANGED <<stdin, request, soup, pipelineVars, response, stdout>>

\* lines 71-98, 153 and 101-106: the page is parsed into hits; with no hit
\* crawl_urls returns [] and both gathers are empty, so the response is
\* built and printed at once; otherwise one fetch task per hit is launched
search_returns ==
  /\ pc = "await_search"
  /\ \E page \in Pages :
     LET hits == fetch_duckduckgo_results(page, top_k)
         urls == [i \in 1..Len(hits) |-> hits[i].url]
     IN /\ results' = hits
        /\ IF urls = <<>>
           THEN /\ response' = Some(Results(BuildOutput(hits, <<>>, <<>>)))
                /\ stdout' = Append(stdout, Results(BuildOutput(hits, <<>>, <<>>)))
                /\ pc' = "done"
                /\ UNCHANGED crawl
           ELSE /\ crawl' = [i \in 1..Len(urls) |-> None]
                /\ pc' = "await_crawl"
                /\ UNCHANGED <<response, stdout>>
        /\ net' = [net EXCEPT !.fetch = @ + Len(urls),
                              !.session = @ + (IF OpensSession(urls) THEN 1 ELSE 0)]
  /\ UNCHANGED <<stdin, request, soup, query, top_k, crawlOrder, payloads, task,
                 factsOrder, modelCheck, writes>>

\* line 105-106: the fetch task of position i ends, with a result or an
\* exception
fetch_returns(i, outcome) ==
  /\ pc = "await_crawl"
  /\ i \in 1..Len(crawl)
  /\ crawl[i] = None
  /\ crawl' = [crawl EXCEPT ![i] = Some(outcome)]
  /\ crawlOrder' = Append(crawlOrder, i)
  /\ UNCHANGED <<pc, stdin, request, soup, query, top_k, results, payloads, task,
                 factsOrder, modelCheck, net, writes, response, stdout>>

CrawlReturnsOnFirst ==
  /\ pc = "await_crawl"
  /\ \E i \in 1..Len(crawl) : crawl[i] # None
  /\ payloads' = [i \in 1..Len(crawl) |->
                    IF crawl[i] = None THEN Payload("", None)
                    ELSE normalize_crawl_result(crawl[i][1])]
  /\ task' = [i \in 1..Len(crawl) |-> TaskInit]
  /\ pc' = "await_facts"
  /\ UNCHANGED <<stdin, request, soup, query, top_k, results, crawl, crawlOrder,
                 factsOrder, modelCheck, net, writes, response, stdout>>

\* lines 106, 154-159: every fetch task has ended; gather returns, the
\* outcomes are normalised and one extraction task per payload is launched
crawl_urls_returns ==
  /\ pc = "await_crawl"
  /\ \A i \in 1..Len(crawl) : crawl[i] # None
  /\ LET crawl_results == Gather(crawl, crawlOrder)
     IN /\ payloads' = [i \in 1..Len(crawl_results) |->
                          normalize_crawl_result(crawl_results[i])]
        /\ task' = [i \in 1..Len(crawl_results) |-> TaskInit]
  /\ pc' = "await_facts"
  /\ UNCHANGED <<stdin, request, soup, query, top_k, results, crawl, crawlOrder,
                 factsOrder, modelCheck, net, writes, response, stdout>>

AfterGateIgnoresGate(t, st) ==
  [t EXCEPT !.status = Some(st), !.pc = "gen", !.gen = @ + 1]

\* lines 126-141: extract_facts once ensure_model_available has returned st
\* (the shared _MODEL_CHECK, read before anything else can run): give up
\* with the gate's error, or issue the generation call
AfterGate(t, st) ==
  IF ~st.available
  THEN [t EXCEPT !.status = Some(st), !.pc = "done", !.ret = Some(GateFacts(st))]
  ELSE [t EXCEPT !.status = Some(st), !.pc = "gen", !.gen = @ + 1]

Finished(ts, order, i) ==
  IF ts[i].pc = "done" THEN Append(order, i) ELSE order

\* lines 122-125 and 33-39: the event loop runs the first step of the
\* extraction tasks in the order gather was given them; task i runs up to
\* its first pending network call
extract_facts_starts(i) ==
  /\ pc = "await_facts"
  /\ i \in 1..Len(task)
  /\ task[i].pc = "start"
  /\ \A j \in 1..(i - 1) : task[j].pc # "start"
  /\ LET t == task[i]
         t2 == IF ContentEmpty(payloads[i].content)
               THEN [t EXCEPT !.pc = "done", !.ret = Some(EmptyFacts)]
               ELSE IF MustCheck(modelCheck)
               THEN [t EXCEPT !.pc = "tags", !.tags = @ + 1]
               ELSE AfterGate(t, modelCheck)
         ts == [task EXCEPT ![i] = t2]
     IN /\ task' = ts
        /\ net' = [net EXCEPT !.tags = @ + (t2.tags - t.tags),
                              !.gen = @ + (t2.gen - t.gen)]
        /\ factsOrder' = Finished(ts, factsOrder, i)
  /\ UNCHANGED <<pc, stdin, request, soup, query, top_k, results, crawl, crawlOrder,
                 payloads, modelCheck, writes, response, stdout>>

TagsReturnsHalfUpdate(i, resp) ==
  /\ pc = "await_facts"
  /\ i \in 1..Len(task)
  /\ task[i].pc = "tags"
  /\ LET cr == CheckResult(resp)
         t == [task[i] EXCEPT !.listing = Some(resp)]
         t2 == AfterGate(t, cr.status)
         ts == [task EXCEPT ![i] = t2]
     IN /\ modelCheck' = [cr.status EXCEPT !.available = modelCheck.available]
        /\ writes' = writes + 1
        /\ task' = ts
        /\ net' = [net EXCEPT !.gen = @ + (t2.gen - t.gen)]
        /\ factsOrder' = Finished(ts, factsOrder, i)
        /\ pc' = pc
  /\ UNCHANGED <<stdin, request, soup, query, top_k, results, crawl, crawlOrder,
                 payloads, response, stdout>>

\* lines 39-55 and 125-141: the tags call of task i ends; the outcome is
\* stored in _MODEL_CHECK and extract_facts goes on with it
tags_returns(i, resp) ==
  /\ pc = "await_facts"
  /\ i \in 1..Len(task)
  /\ task[i].pc = "tags"
  /\ LET cr == CheckResult(resp)
         t == [task[i] EXCEPT !.listing = Some(resp)]
     IN IF cr.raised
        THEN /\ task' = [task EXCEPT ![i] = [t EXCEPT !.pc = "raised"]]
             /\ pc' = "raised"
             /\ UNCHANGED <<modelCheck, writes, net, factsOrder>>
        ELSE LET t2 == AfterGate(t, cr.status)
                 ts == [task EXCEPT ![i] = t2]
             IN /\ modelCheck' = cr.status
                /\ writes' = writes + 1
                /\ task' = ts
                /\ net' = [net EXCEPT !.gen = @ + (t2.gen - t.gen)]
                /\ factsOrder' = Finished(ts, factsOrder, i)
                /\ pc' = pc
  /\ UNCHANGED <<stdin, request, soup, query, top_k, results, crawl, crawlOrder,
                 payloads, response, stdout>>

\* lines 138-147: the generation call of task i ends
gen_returns(i, resp) ==
  /\ pc = "await_facts"
  /\ i \in 1..Len(task)
  /\ task[i].pc = "gen"
  /\ task' = [task EXCEPT ![i] = [@ EXCEPT !.pc = "done", !.reply = Some(resp),
                                                !.ret = Some(GenFacts(resp))]]
  /\ factsOrder' = Append(factsOrder, i)
  /\ UNCHANGED <<pc, stdin, request, soup, query, top_k, results, crawl, crawlOrder,
                 payloads, modelCheck, net, writes, response, stdout>>

SearchWebReturnsUnlessFailed ==
  /\ pc = "await_facts"
  /\ \A i \in 1..Len(task) : task[i].pc = "done" /\ task[i].ret[1].facts_error = None
  /\ LET facts_list == Gather([i \in 1..Len(task) |-> task[i].ret], factsOrder)
         output == BuildOutput(results, payloads, facts_list)
     IN /\ response' = Some(Results(output))
        /\ stdout' = Append(stdout, Results(output))
  /\ pc' = "done"
  /\ UNCHANGED <<stdin, request, soup, pipelineVars>>

\* lines 157-173 and 198-199: every extraction task has ended; gather
\* returns, the records are built, the response is returned and printed
search_web_returns ==
  /\ pc = "await_facts"
  /\ \A i \in 1..Len(task) : task[i].pc = "done"
  /\ LET facts_list == Gather([i \in 1..Len(task) |-> task[i].ret], factsOrder)
         output == BuildOutput(results, payloads, facts_list)
     IN /\ response' = Some(Results(output))
        /\ stdout' = Append(stdout, Results(output))
  /\ pc' = "done"
  /\ UNCHANGED <<stdin, request, soup, pipelineVars>>

Next ==
  \/ main
  \/ handle_request
  \/ search_web
  \/ search_fails
  \/ search_returns
  \/ \E i \in 1..MAX_RESULTS : \E outcome \in CrawlOutcomes : fetch_returns(i, outcome)
  \/ crawl_urls_returns
  \/ \E i \in 1..MAX_RESULTS : extract_facts_starts(i)
  \/ \E i \in 1..MAX_RESULTS : \E resp \in TagsOutcomes : tags_returns(i, resp)
  \/ \E i \in 1..MAX_RESULTS : \E resp \in GenOutcomes : gen_returns(i, resp)
  \/ search_web_returns

Spec == Init /\ [][Next]_vars

\* lines 106, 159, 185: asyncio.run drives the event loop until main ends,
\* the loop runs every ready task, and every awaited network call is taken
\* to return or fail: a step that stays possible is eventually taken
FairSpec == Spec /\ WF_vars(Next)

\* ------------------------------------------- the lookup called on its own
\* requested counts a direct caller of fetch_duckduckgo_results may pass
LookupLimits == (0 - 1)..(MAX_RESULTS + 2)

\* fetch_duckduckgo_results(query, limit) called directly: soup is the page
\* the backend answers with, top_k holds the limit argument
InitLookup ==
  /\ pc = "lookup"
  /\ soup \in {Some(p) : p \in Pages}
  /\ top_k \in LookupLimits
  /\ stdin = None
  /\ request = None
  /\ query = <<"x">>
  /\ results = <<>>
  /\ crawl = <<>>
  /\ crawlOrder = <<>>
  /\ payloads = <<>>
  /\ task = <<>>
  /\ factsOrder = <<>>
  /\ modelCheck = ModelCheckInit
  /\ net = [search |-> 1, session |-> 0, fetch |-> 0, tags |-> 0, gen |-> 0]
  /\ writes = 0
  /\ response = None
  /\ stdout = <<>>

\* lines 71-98: the page is parsed and the hits are returned
lookup_returns ==
  /\ pc = "lookup"
  /\ results' = fetch_duckduckgo_results(soup[1], top_k)
  /\ pc' = "lookup_done"
  /\ UNCHANGED <<stdin, request, soup, query, top_k, crawl, crawlOrder, payloads,
                 task, factsOrder, modelCheck, net, writes, response, stdout>>

\* lines 67-69: the GET fails or raise_for_status raises
lookup_fails ==
  /\ pc = "lookup"
  /\ pc' = "raised"
  /\ UNCHANGED <<stdin, request, soup, pipelineVars, response, stdout>>

NextLookup == lookup_returns \/ lookup_fails

SpecLookup == InitLookup /\ [][NextLookup]_vars

\* ------------------------------------------------------------ properties
Returned == pc = "done" /\ response # None /\ response[1].k = "results"

Output == response[1].results

Ascending(order) == \A a, b \in 1..Len(order) : a < b => order[a] < order[b]

FetchFailed(i) == crawl[i][1].k = "exc"

\* C1: whenever search_web has returned, there are as many records as search
\* hits and the Nth record carries the title and url of the Nth hit.
C1_PositionalCorrespondence ==
  Returned =>
    /\ Len(Output) = Len(results)
    /\ \A n \in 1..Len(results) :
         /\ Output[n].title = results[n].title
         /\ Output[n].url = results[n].url

\* a returned run of three hits mixing a failed fetch, a failed extraction
\* and a successful one
C1_Witness ==
  /\ Returned
  /\ Len(results) = 3
  /\ \E a, b, c \in 1..3 :
       /\ FetchFailed(a)
       /\ task[b].ret[1].facts_error # None
       /\ Output[c].facts # None

\* C2: the returned list is the list of records built position by position
\* from the hit, the fetch outcome and the extraction outcome of that
\* position, whatever order the fetch tasks and the extraction tasks
\* completed in.
C2_OrderIndependent ==
  Returned =>
    Output = [n \in 1..Len(results) |->
                ResultRecord(results[n], normalize_crawl_result(crawl[n][1]),
                             task[n].ret[1])]

\* a returned run in which both the fetches and the extractions completed
\* out of position order and the records differ
C2_Witness ==
  /\ Returned
  /\ ~Ascending(crawlOrder)
  /\ ~Ascending(factsOrder)
  /\ \E a, b \in 1..Len(Output) :
       /\ Output[a].facts # None
       /\ Output[b].error # None

\* what a position whose fetch succeeded gets as facts, from its own page
\* content, the gate status it was given and the reply to its own
\* generation call
OwnFacts(i) ==
  IF payloads[i].content = "" THEN None
  ELSE IF ~task[i].status[1].available THEN None
  ELSE IF task[i].reply[1].k = "exc" THEN None
  ELSE IF Strip(task[i].reply[1].text) = <<>> THEN None
  ELSE Some(Strip(task[i].reply[1].text))

\* C3: a fetch task that raises never makes the run raise; once the run has
\* returned the list is full, a position whose fetch raised has error set to
\* the exception's message, no facts, and issued no model call, and every
\* other position has no error and the facts of its own extraction.
C3_FetchFailureIsolation ==
  /\ (pc = "raised" => crawl = <<>>)
  /\ Returned =>
       /\ Len(Output) = Len(crawl)
       /\ \A i \in 1..Len(crawl) :
            IF FetchFailed(i)
            THEN /\ Output[i].error = Some(crawl[i][1].msg)
                 /\ Output[i].facts = None
                 /\ task[i].tags = 0 /\ task[i].gen = 0
            ELSE /\ Output[i].error = None
                 /\ Output[i].facts = OwnFacts(i)

\* fetch #2 of 2 raised and record #1 has its facts
C3_Witness ==
  /\ Returned
  /\ Len(crawl) = 2
  /\ FetchFailed(2)
  /\ Output[2].error = Some(<<"fail">>)
  /\ ~FetchFailed(1)
  /\ Output[1].facts = Some(<<"f">>)

\* C4 (as claimed): in one process lifetime the model-listing call is issued
\* at most once and _MODEL_CHECK is updated at most once, also when several
\* extraction tasks call ensure_model_available while checked is false.
C4_CheckedAtMostOnce == net.tags <= 1 /\ writes <= 1

\* task i of the extraction stage is run for the first time in this step
Starts(i) == pc = "await_facts" /\ task[i].pc = "start" /\ task'[i].pc # "start"

\* C5: a call of ensure_model_available made while checked is true issues no
\* listing call, leaves _MODEL_CHECK as it is and hands the stored status to
\* its caller; when that status is unavailable extract_facts returns empty
\* text with the stored error and issues no generation call.
C5_MemoisedGate ==
  [][\A i \in 1..Len(task) :
       (Starts(i) /\ payloads[i].content # "" /\ modelCheck.checked) =>
         /\ net'.tags = net.tags
         /\ task'[i].tags = 0
         /\ writes' = writes
         /\ modelCheck' = modelCheck
         /\ task'[i].status = Some(modelCheck)
         /\ (~modelCheck.available =>
               /\ task'[i].pc = "done"
               /\ task'[i].ret = Some(Facts(<<>>, modelCheck.error))
               /\ net'.gen = net.gen)]_vars

\* a second extraction call found the gate already marked unavailable and
\* returned its error without a listing call of its own
C5_Witness ==
  /\ pc = "await_facts"
  /\ writes = 1
  /\ net.tags = 1
  /\ \E i, j \in 1..Len(task) :
       /\ i # j
       /\ task[i].tags = 1
       /\ task[j].tags = 0
       /\ task[j].status = Some(modelCheck)
       /\ ~modelCheck.available
       /\ task[j].ret = Some(Facts(<<>>, modelCheck.error))

\* C6: extract_facts given empty content returns empty text and no error in
\* its first step, without calling ensure_model_available, without a listing
\* or generation call, and leaving _MODEL_CHECK untouched.
C6_EmptyContentShortCircuit ==
  [][\A i \in 1..Len(task) :
       (Starts(i) /\ payloads[i].content = "") =>
         /\ task'[i] = [TaskInit EXCEPT !.pc = "done",
                                        !.ret = Some(Facts(<<>>, None))]
         /\ UNCHANGED <<modelCheck, net, writes>>]_vars

\* an extraction of a fetched but empty page has returned while the gate is
\* still unchecked and no model call was ever issued
C6_Witness ==
  /\ pc = "await_facts"
  /\ ~modelCheck.checked
  /\ net.tags = 0 /\ net.gen = 0
  /\ \E i \in 1..Len(task) :
       /\ ~FetchFailed(i)
       /\ payloads[i].content = ""
       /\ task[i].pc = "done"
       /\ task[i].ret = Some(Facts(<<>>, None))

NoPipelineEffect ==
  /\ net = [search |-> 0, session |-> 0, fetch |-> 0, tags |-> 0, gen |-> 0]
  /\ writes = 0
  /\ modelCheck = ModelCheckInit
  /\ results = <<>> /\ crawl = <<>> /\ task = <<>>

\* C7: whatever integer search_web is given, the limit it passes to the
\* search lookup is max(1, min(top_k, MAX_RESULTS)), a value in 1..3, and
\* neither the hits nor the returned records are more than that limit.
C7_TopKClamp ==
  /\ [][pc = "search_web" =>
          /\ top_k' = (IF top_k < 1 THEN 1
                       ELSE IF top_k > MAX_RESULTS THEN MAX_RESULTS ELSE top_k)
          /\ top_k' \in 1..3]_vars
  /\ [](pc \in {"await_crawl", "await_facts", "done"} /\ response # Some(MissingQuery)
          => /\ Len(results) <= top_k
             /\ Returned => Len(Output) <= top_k)

\* a run whose page had more eligible entries than the limit returned
\* exactly MAX_RESULTS records
C7_Witness ==
  /\ Returned
  /\ top_k = MAX_RESULTS
  /\ Len(Output) = MAX_RESULTS

\* the input line is absent, empty, not JSON, or an object in which query and
\* q are both absent or falsy
MissingQueryInput(in) ==
  \/ in.kind \in {"eof", "empty", "malformed"}
  \/ /\ in.kind = "json"
     /\ in.val.k = "dict"
     /\ (in.val.query = None \/ ~Truthy(in.val.query[1]))
     /\ (in.val.q = None \/ ~Truthy(in.val.q[1]))

\* C8: for such an input handle_request answers {"error": "Missing query"},
\* exactly that line is printed, and the pipeline is never started: no
\* search, fetch, listing or generation call and no change of _MODEL_CHECK.
C8_MissingQuery ==
  /\ [][(pc = "handle_request" /\ MissingQueryInput(stdin[1])) =>
          /\ pc' = "done"
          /\ response' = Some(MissingQuery)
          /\ stdout' = <<MissingQuery>>
          /\ UNCHANGED pipelineVars]_vars
  /\ [](response = Some(MissingQuery) =>
          pc = "done" /\ stdout = <<MissingQuery>> /\ NoPipelineEffect)

\* a request whose query and q are both present but falsy was answered
C8_Witness ==
  /\ pc = "done"
  /\ stdout = <<MissingQuery>>
  /\ stdin # None
  /\ stdin[1].kind = "json"
  /\ stdin[1].val.k = "dict"
  /\ stdin[1].val.query = Some(PyInt(0))
  /\ stdin[1].val.q = Some(PyStr(<<>>))
  /\ NoPipelineEffect

\* the value the claim says is handed to the pipeline
ChosenTopK(req) ==
  IF req.top_k # None THEN req.top_k
  ELSE IF req.limit # None THEN req.limit
  ELSE Some(PyInt(MAX_RESULTS))

ClaimedTopK(req) ==
  LET r == PyIntOf(ChosenTopK(req)[1])
  IN IF r.ok THEN r.v ELSE FALLBACK_TOP_K

\* C9 (as claimed): a request with a query is handed to the pipeline with
\* top_k = int(top_k field) when the field is present, else int(limit field)
\* when that is present, else MAX_RESULTS, and 5 when the chosen value
\* cannot be coerced.
C9_TopKResolution ==
  [][(pc = "handle_request" /\ request[1].k = "dict" /\ HasQuery(request[1])) =>
       /\ pc' = "search_web"
       /\ top_k' = ClaimedTopK(request[1])]_vars

\* the model as a task found it right after its own listing call ended
StatusFor(resp) ==
  IF resp.k = "exc" THEN ModelStatus(TRUE, FALSE, Some(resp.msg))
  ELSE IF \A j \in 1..Len(resp.models) : resp.models[j] # OLLAMA_MODEL
       THEN ModelStatus(TRUE, FALSE, Some(<<"Model not found: ", OLLAMA_MODEL>>))
  ELSE ModelStatus(TRUE, TRUE, None)

\* C10: when the listing call of a task that found checked = false ends,
\* _MODEL_CHECK is set to and the task is given checked = true with
\* available = false and "Model not found: <name>" if the model is not
\* listed, available = false and the exception's message if the call failed,
\* available = true and no error if the model is listed; nothing is raised.
C10_FirstCheckOutcome ==
  [][\A i \in 1..Len(task) :
       (pc = "await_facts" /\ task[i].pc = "tags" /\ task'[i].pc # "tags") =>
         /\ task'[i].listing # None
         /\ modelCheck' = StatusFor(task'[i].listing[1])
         /\ task'[i].status = Some(modelCheck')
         /\ task'[i].pc \in {"done", "gen"}
         /\ pc' = "await_facts"]_vars

\* three checks ended, one in each of the three ways
C10_Witness ==
  /\ Len(task) = 3
  /\ \E a, b, c \in 1..3 :
       /\ task[a].listing # None /\ task[a].listing[1].k = "exc"
       /\ task[a].status = Some(ModelStatus(TRUE, FALSE, Some(<<"connect failed">>)))
       /\ task[b].listing # None /\ task[b].listing[1].k = "ok"
       /\ task[b].status =
            Some(ModelStatus(TRUE, FALSE, Some(<<"Model not found: ", OLLAMA_MODEL>>)))
       /\ task[c].listing # None
       /\ task[c].status = Some(ModelStatus(TRUE, TRUE, None))

\* C11: extract_facts never raises: no extraction task ends raised and the
\* run never raises once extraction was launched; a task with content that
\* was told the model is unavailable returns empty text with the gate's
\* error and issues no generation call; a task whose generation call failed
\* returns empty text with the exception's message; a generation call is
\* issued only by a task that was told the model is available.
C11_ExtractNeverRaises ==
  /\ (pc = "raised" => task = <<>>)
  /\ \A i \in 1..Len(task) :
       /\ task[i].pc # "raised"
       /\ task[i].gen <= 1
       /\ (task[i].gen = 1 =>
             task[i].status # None /\ task[i].status[1].available)
       /\ (task[i].status # None /\ ~task[i].status[1].available =>
             /\ task[i].pc = "done"
             /\ task[i].gen = 0
             /\ task[i].ret = Some(Facts(<<>>, task[i].status[1].error)))
       /\ (task[i].reply # None /\ task[i].reply[1].k = "exc" =>
             /\ task[i].pc = "done"
             /\ task[i].ret = Some(Facts(<<>>, Some(task[i].reply[1].msg))))

\* one extraction gave up at the gate without a generation call and another
\* had its generation call fail
C11_Witness ==
  \E i, j \in 1..Len(task) :
    /\ payloads[i].content # ""
    /\ task[i].ret = Some(Facts(<<>>, Some(<<"Model not found: ", OLLAMA_MODEL>>)))
    /\ task[i].gen = 0
    /\ task[j].gen = 1
    /\ task[j].ret = Some(Facts(<<>>, Some(<<"timeout">>)))

\* C12: in every returned record error is the message of the fetch failure
\* of that position, or absent when the fetch succeeded, whatever the
\* extraction ended with; facts is present exactly when the extraction
\* returned non-empty text and no error, and is then that text; no record
\* has both an error and facts.
C12_RecordConstruction ==
  Returned =>
    \A n \in 1..Len(Output) :
      LET rec == Output[n]
          ex == task[n].ret[1]
      IN /\ DOMAIN rec = {"title", "url", "error", "facts"}
         /\ rec.error = (IF FetchFailed(n) THEN Some(crawl[n][1].msg) ELSE None)
         /\ (rec.facts # None <=> (ex.facts # <<>> /\ ex.facts_error = None))
         /\ (rec.facts # None => rec.facts = Some(ex.facts))
         /\ ~(rec.error # None /\ rec.facts # None)

\* a returned run with a record whose extraction failed (error not
\* surfaced), one whose extraction found only blank text, and one with facts
C12_Witness ==
  /\ Returned
  /\ \E a, b, c \in 1..Len(Output) :
       /\ task[a].ret[1].facts_error # None
       /\ Output[a].error = None /\ Output[a].facts = None
       /\ task[b].reply = Some(GenOk(<<" ">>))
       /\ Output[b].error = None /\ Output[b].facts = None
       /\ Output[c].facts = Some(<<"f">>)

\* a host belongs to the backend's domain when it is duckduckgo.com or one
\* of its subdomains
BelongsToBackend(netloc) ==
  netloc = DdgHost \/ EndsWith(netloc, <<".">> \o DdgHost)

\* the link target of an entry after protocol-relative normalisation and
\* uddg unwrapping
EntryTarget(e) == UnwrapHref(NormalizeHref(e.href[1]))

Eligible(e) ==
  e.link /\ e.href # None /\ ~BelongsToBackend(EntryTarget(e).netloc)

RECURSIVE EligibleHits(_)
EligibleHits(entries) ==
  IF entries = <<>> THEN <<>>
  ELSE (IF Eligible(Head(entries))
        THEN <<Hit(Head(entries).title, EntryTarget(Head(entries)),
                   IF Head(entries).snippet = None THEN ""
                   ELSE Head(entries).snippet[1])>>
        ELSE <<>>) \o EligibleHits(Tail(entries))

FirstK(xs, n) == SubSeq(xs, 1, Min(n, Len(xs)))

\* C13 (as claimed): for every page and every k >= 1 the lookup returns, in
\* page order, the first k eligible entries, an entry being eligible iff it
\* has a non-empty link whose target, once normalised and unwrapped, has a
\* host outside the backend's own domain; a wrapped entry carries its decoded
\* target, and no returned url has a host of the backend's domain.
C13_LookupFiltering ==
  (pc = "lookup_done" /\ top_k >= 1) =>
    /\ results = FirstK(EligibleHits(soup[1]), top_k)
    /\ \A n \in 1..Len(results) : ~BelongsToBackend(results[n].url.netloc)

\* C14 (as claimed): for every requested count k, also k <= 0 and
\* k > MAX_RESULTS, the lookup returns at most max(1, min(k, MAX_RESULTS))
\* hits.
C14_LookupClamps ==
  pc = "lookup_done" =>
    Len(results) <= (IF top_k < 1 THEN 1
                     ELSE IF top_k > MAX_RESULTS THEN MAX_RESULTS ELSE top_k)

\* C15 (as claimed): when several extraction tasks each issued their own
\* listing call, the status left in _MODEL_CHECK once all of them have ended
\* does not depend on the order they ended in: it is the status of each
\* racer's outcome.
C15_RacingChecksConverge ==
  (pc \in {"await_facts", "done"} /\ \A i \in 1..Len(task) : task[i].pc # "tags") =>
    \A i \in 1..Len(task) :
      task[i].listing # None => modelCheck = StatusFor(task[i].listing[1])

\* C16: no fetch (and no fetch session) is started before the search lookup
\* has returned; no extraction task exists, and no listing or generation
\* call is issued, before every fetch task has ended; no response is
\* produced before every extraction task has ended.
C16_StageBarriers ==
  /\ (pc \in {"main", "handle_request", "search_web", "await_search"} =>
        /\ net.session = 0 /\ net.fetch = 0
        /\ crawl = <<>>)
  /\ (pc \in {"main", "handle_request", "search_web", "await_search", "await_crawl"} =>
        /\ task = <<>> /\ payloads = <<>>
        /\ net.tags = 0 /\ net.gen = 0 /\ writes = 0
        /\ response = None)
  /\ (task # <<>> \/ net.tags > 0 \/ net.gen > 0 =>
        /\ Len(task) = Len(crawl)
        /\ \A j \in 1..Len(crawl) : crawl[j] # None)
  /\ (pc = "await_facts" => response = None /\ stdout = <<>>)
  /\ (Returned => \A i \in 1..Len(task) : task[i].pc = "done")

\* extraction is under way (one task awaiting the listing, one not yet
\* run) after all three fetches ended, one of them with a failure
C16_Witness ==
  /\ pc = "await_facts"
  /\ Len(crawl) = 3
  /\ \E i, j, l \in 1..3 :
       /\ task[i].pc = "tags"
       /\ task[j].pc = "start"
       /\ FetchFailed(l)

\* C17: when the search call fails the run ends raised, in that very step
\* and for good: nothing is answered or printed, no hit list exists, no
\* fetch session, fetch, listing or generation call is issued and
\* _MODEL_CHECK is untouched; an error answer is only ever given before any
\* search call.
C17_SearchFailureAborts ==
  /\ [][(pc = "await_search" /\ pc' = "raised") =>
          UNCHANGED <<pipelineVars, response, stdout>>]_vars
  /\ [][pc = "raised" => UNCHANGED vars]_vars
  /\ [](pc = "raised" /\ net.search = 1 =>
          /\ response = None /\ stdout = <<>>
          /\ results = <<>> /\ crawl = <<>> /\ task = <<>>
          /\ net.session = 0 /\ net.fetch = 0 /\ net.tags = 0 /\ net.gen = 0
          /\ writes = 0 /\ modelCheck = ModelCheckInit)
  /\ [](response # None /\ response[1].k = "error" => net.search = 0)
  /\ [](net.search = 1 /\ pc = "done" => response # None /\ response[1].k = "results")

\* the search call was issued and failed
C17_Witness ==
  /\ pc = "raised"
  /\ net.search = 1
  /\ query = <<"x">>
  /\ response = None

\* C18: when every network call eventually returns or fails, every run
\* eventually ends, either raised or with a response; a response to a
\* search has one record per search hit, in whatever way the fetches and
\* extractions ended, and by then every fetch and every extraction task
\* has run to its end (none was cancelled or left pending).
C18_Termination ==
  /\ <>(pc \in {"done", "raised"})
  /\ [](Returned =>
          /\ Len(Output) = Len(results)
          /\ \A i \in 1..Len(results) : crawl[i] # None
          /\ \A i \in 1..Len(results) : task[i].pc = "done" /\ task[i].ret # None)
  /\ [](pc = "raised" => task = <<>> /\ crawl = <<>>)

\* a run that answered three records although one fetch failed and one
\* generation call failed
C18_Witness ==
  /\ Returned
  /\ Len(Output) = 3
  /\ \E i, j \in 1..3 :
       /\ FetchFailed(i)
       /\ task[j].reply # None
       /\ task[j].reply[1].k = "exc"

\* C19: when the search call returned and gave zero hits, the run is over
\* with a response whose results list is empty: no fetch session was
\* opened, no fetch, extraction task, listing or generation call was
\* issued, and _MODEL_CHECK is as it was.
C19_EmptySearchResult ==
  (net.search = 1 /\ pc # "await_search" /\ pc # "raised" /\ results = <<>>) =>
    /\ Returned
    /\ Output = <<>>
    /\ net.session = 0 /\ net.fetch = 0
    /\ crawl = <<>> /\ payloads = <<>> /\ task = <<>>
    /\ net.tags = 0 /\ net.gen = 0
    /\ writes = 0 /\ modelCheck = ModelCheckInit
    /\ stdout = <<Results(<<>>)>>

\* a search that was issued and answered with no hit
C19_Witness ==
  /\ Returned
  /\ net.search = 1
  /\ results = <<>>
  /\ Output = <<>>

\* a status as one reader can see it: unavailable only when checked, and
\* once checked the error is absent exactly when the model is available
Consistent(mc) ==
  /\ (~mc.available => mc.checked)
  /\ (mc.checked => (mc.error = None <=> mc.available))

\* C20: in every state _MODEL_CHECK, and every status an extraction task
\* was handed, is consistent (unavailable only when checked; once checked,
\* error absent exactly when available), and checked never goes from true
\* back to false, whatever the interleaving of the listing calls.
C20_ModelStatusConsistency ==
  /\ [](Consistent(modelCheck))
  /\ [](\A i \in 1..Len(task) : task[i].status # None => Consistent(task[i].status[1]))
  /\ [][modelCheck.checked => modelCheck'.checked]_vars

\* two racing listing calls have both written, the second over a checked
\* status, and what is stored is a failure
C20_Witness ==
  /\ writes = 2
  /\ modelCheck.checked
  /\ ~modelCheck.available
  /\ modelCheck.error # None
  /\ \E i \in 1..Len(task) :
       task[i].status # None /\ task[i].status[1].available

====
